---- MODULE Spec2Model ----
(***************************************************************************)
(* MyHashTable (src/MyHashTable.py): an open-addressing hash table with    *)
(* linear probing, load-factor triggered growth with full rehash, and a    *)
(* collision log.  Every public operation of the class is one action; the  *)
(* methods are operators on a table record, computed as the code computes  *)
(* them, exceptions included: an exception leaves the table as the code    *)
(* had mutated it when the exception was raised.                           *)
(***************************************************************************)
EXTENDS Integers, Sequences, FiniteSets, TLC

(* ------------------------------ bounds --------------------------------- *)
NumKeys == 3
NumValues == 2
MaxHash == 1
MaxInitBuckets == 3
MaxIncrement == 1
MaxDen == 3
MaxResize == 3
\* the length of a run, in operations
MaxOps == 3
\* the same, for the runs of set, delete and resize only
MaxMutateOps == 5
\* the same, for the runs of sets of new keys only
MaxInsertOps == 4

Keys == 1..NumKeys
Values == 1..NumValues

\* hash() of the keys: any function; keys are interchangeable apart from
\* their hash, so only the non-decreasing assignments are enumerated
HashFunctions ==
  {h \in [Keys -> 0..MaxHash] : \A a, b \in Keys : a <= b => h[a] <= h[b]}

\* max_utilization_fraction as an exact fraction <<num, den>> in (0, 1)
Fractions == {f \in (1..MaxDen) \X (1..MaxDen) : f[1] < f[2]}

(* ------------------------------- state --------------------------------- *)
VARIABLES
  data,                      \* self._data: the buckets, bucket i is data[i+1]
  n_data,                    \* self._n_data
  collision_log,             \* self.collision_log
  n_collisions,              \* self.n_collisions
  auto_resize,               \* self._auto_resize
  max_utilization_fraction,  \* self._max_utilization_fraction
  bucket_increment,          \* self._bucket_increment
  hash,                      \* the hash function of the run
  op,                        \* the last operation: its arguments and outcome
  pre,                       \* the table as the last operation found it
  amap,                      \* the abstract map: key -> <<value>>, or <<>>
  n_ops                      \* the number of operations so far

cvars == <<auto_resize, max_utilization_fraction, bucket_increment, hash>>
vars == <<data, n_data, collision_log, n_collisions, auto_resize,
          max_utilization_fraction, bucket_increment, hash, op, pre, amap, n_ops>>

\* an empty bucket; an occupied one is the dataRecord tuple <<key, value>>
None == <<>>

dataRecord(key, value) == <<key, value>>

collisionLog(nb, length, collisions) ==
  [n_buckets |-> nb, len |-> length, collisions |-> collisions]

\* the table as one value, for the operators below
Table ==
  [data |-> data, n_data |-> n_data,
   collision_log |-> collision_log, n_collisions |-> n_collisions]

n_buckets(t) == Len(t.data)

\* __len__ returns n_data; the builtin len() raises ValueError when it is negative
len(t) == t.n_data

len_raises(t) == t.n_data < 0

\* [None] * n is the empty list for n <= 0
initialize_data(t, n) ==
  [t EXCEPT !.n_data = 0, !.data = [i \in 1..n |-> None]]

\* utilization > max_utilization_fraction, for n_buckets > 0
OverUtilized(t) ==
  len(t) * max_utilization_fraction[2] > max_utilization_fraction[1] * n_buckets(t)

\* _log_collisions keeping no record of a resolution without collisions
log_collisions_skips_zero(t, n) ==
  IF n = 0 THEN t
  ELSE [t EXCEPT !.collision_log = Append(@, collisionLog(n_buckets(t), len(t), n)),
                 !.n_collisions = @ + n]

log_collisions(t, n) ==
  [t EXCEPT !.collision_log = Append(@, collisionLog(n_buckets(t), len(t), n)),
            !.n_collisions = @ + n]

\* Probe giving up one step early: n_collisions >= len(self)
RECURSIVE Probe_short(_, _, _, _)
Probe_short(t, key, i_bucket, n) ==
  IF t.data[i_bucket + 1] = None
    THEN [err |-> "none", i_bucket |-> i_bucket, n |-> n]
  ELSE IF t.data[i_bucket + 1][1] = key
    THEN [err |-> "none", i_bucket |-> i_bucket, n |-> n]
  ELSE IF len_raises(t)
    THEN [err |-> "ValueError", i_bucket |-> i_bucket, n |-> n + 1]
  ELSE IF n + 1 >= len(t)
    THEN [err |-> "KeyError", i_bucket |-> i_bucket, n |-> n + 1]
  ELSE Probe_short(t, key, (i_bucket + 1) % n_buckets(t), n + 1)

\* Probe that stops at empty buckets only
RECURSIVE Probe_ignores_key(_, _, _, _)
Probe_ignores_key(t, key, i_bucket, n) ==
  IF t.data[i_bucket + 1] = None
    THEN [err |-> "none", i_bucket |-> i_bucket, n |-> n]
  ELSE IF len_raises(t)
    THEN [err |-> "ValueError", i_bucket |-> i_bucket, n |-> n + 1]
  ELSE IF n + 1 > len(t)
    THEN [err |-> "KeyError", i_bucket |-> i_bucket, n |-> n + 1]
  ELSE Probe_ignores_key(t, key, (i_bucket + 1) % n_buckets(t), n + 1)

(* the while loop of _key_to_bucket *)
RECURSIVE Probe(_, _, _, _)
Probe(t, key, i_bucket, n) ==
  IF t.data[i_bucket + 1] = None
    THEN [err |-> "none", i_bucket |-> i_bucket, n |-> n]
  ELSE IF t.data[i_bucket + 1][1] = key
    THEN [err |-> "none", i_bucket |-> i_bucket, n |-> n]
  ELSE IF len_raises(t)
    THEN [err |-> "ValueError", i_bucket |-> i_bucket, n |-> n + 1]
  ELSE IF n + 1 > len(t)
    THEN [err |-> "KeyError", i_bucket |-> i_bucket, n |-> n + 1]
  ELSE Probe(t, key, (i_bucket + 1) % n_buckets(t), n + 1)

key_to_bucket(t, key) ==
  IF n_buckets(t) = 0
    THEN [t |-> t, err |-> "ZeroDivisionError", i_bucket |-> 0]
  ELSE LET p == Probe(t, key, hash[key] % n_buckets(t), 0) IN
       IF p.err # "none" THEN [t |-> t, err |-> p.err, i_bucket |-> 0]
       ELSE IF len_raises(t) THEN [t |-> t, err |-> "ValueError", i_bucket |-> 0]
       ELSE [t |-> log_collisions(t, p.n), err |-> "none", i_bucket |-> p.i_bucket]

\* the records of the buckets in slot order
RECURSIVE record_kvs(_)
record_kvs(d) ==
  IF d = <<>> THEN <<>>
  ELSE IF Head(d) = None THEN record_kvs(Tail(d))
  ELSE <<Head(d)>> \o record_kvs(Tail(d))

RECURSIVE setitem(_, _, _)
RECURSIVE resize_data(_, _)
RECURSIVE Recommit(_, _)

\* setitem counting every write as a new record
setitem_always_counts(t, key, value) ==
  LET b == key_to_bucket(t, key) IN
  IF b.err = "KeyError" THEN [t |-> b.t, err |-> "ValueError"]
  ELSE IF b.err # "none" THEN [t |-> b.t, err |-> b.err]
  ELSE
    LET t1 == [b.t EXCEPT !.data[b.i_bucket + 1] = dataRecord(key, value)]
        t2 == [t1 EXCEPT !.n_data = @ + 1]
    IN IF auto_resize /\ OverUtilized(t2)
         THEN resize_data(t2, n_buckets(t2) + bucket_increment)
         ELSE [t |-> t2, err |-> "none"]

\* setitem testing the utilization before the record is counted
setitem_check_before(t, key, value) ==
  LET b == key_to_bucket(t, key) IN
  IF b.err = "KeyError" THEN [t |-> b.t, err |-> "ValueError"]
  ELSE IF b.err # "none" THEN [t |-> b.t, err |-> b.err]
  ELSE
    LET data_added == b.t.data[b.i_bucket + 1] = None
        t1 == [b.t EXCEPT !.data[b.i_bucket + 1] = dataRecord(key, value)]
        t2 == IF data_added THEN [t1 EXCEPT !.n_data = @ + 1] ELSE t1
    IN IF auto_resize /\ OverUtilized(b.t)
         THEN resize_data(t2, n_buckets(t2) + bucket_increment)
         ELSE [t |-> t2, err |-> "none"]

setitem(t, key, value) ==
  LET b == key_to_bucket(t, key) IN
  IF b.err = "KeyError" THEN [t |-> b.t, err |-> "ValueError"]
  ELSE IF b.err # "none" THEN [t |-> b.t, err |-> b.err]
  ELSE
    LET data_added == b.t.data[b.i_bucket + 1] = None
        t1 == [b.t EXCEPT !.data[b.i_bucket + 1] = dataRecord(key, value)]
        t2 == IF data_added THEN [t1 EXCEPT !.n_data = @ + 1] ELSE t1
    IN IF auto_resize /\ OverUtilized(t2)
         THEN resize_data(t2, n_buckets(t2) + bucket_increment)
         ELSE [t |-> t2, err |-> "none"]

\* the loop "for k, v in record_kvs: self[k] = v"
Recommit(t, kvs) ==
  IF kvs = <<>> THEN [t |-> t, err |-> "none"]
  ELSE LET r == setitem(t, Head(kvs)[1], Head(kvs)[2]) IN
       IF r.err # "none" THEN r ELSE Recommit(r.t, Tail(kvs))

\* resize_data resetting the store before it tests the requested size
resize_data_check_late(t, n) ==
  LET r == Recommit(initialize_data(t, n), record_kvs(t.data)) IN
  IF len_raises(t) THEN [t |-> t, err |-> "ValueError"]
  ELSE IF n < len(t) THEN [t |-> r.t, err |-> "ValueError"]
  ELSE IF r.err # "none" THEN r
  ELSE IF n_buckets(r.t) = 0 THEN [t |-> r.t, err |-> "ZeroDivisionError"]
  ELSE r

resize_data(t, n) ==
  IF len_raises(t) THEN [t |-> t, err |-> "ValueError"]
  ELSE IF n < len(t) THEN [t |-> t, err |-> "ValueError"]
  ELSE LET r == Recommit(initialize_data(t, n), record_kvs(t.data)) IN
       IF r.err # "none" THEN r
       ELSE IF n_buckets(r.t) = 0 THEN [t |-> r.t, err |-> "ZeroDivisionError"]
       ELSE r

getitem(t, key) ==
  LET b == key_to_bucket(t, key) IN
  IF b.err # "none" THEN [t |-> b.t, err |-> b.err, ret |-> <<>>]
  ELSE IF b.t.data[b.i_bucket + 1] = None
    THEN [t |-> b.t, err |-> "KeyError", ret |-> <<>>]
  ELSE [t |-> b.t, err |-> "none", ret |-> <<b.t.data[b.i_bucket + 1][2]>>]

\* delitem that forgets to clear the bucket
delitem_keeps_record(t, key) ==
  LET b == key_to_bucket(t, key) IN
  IF b.err # "none" THEN [t |-> b.t, err |-> b.err]
  ELSE [t |-> [b.t EXCEPT !.n_data = @ - 1], err |-> "none"]

delitem(t, key) ==
  LET b == key_to_bucket(t, key) IN
  IF b.err # "none" THEN [t |-> b.t, err |-> b.err]
  ELSE [t |-> [b.t EXCEPT !.data[b.i_bucket + 1] = None, !.n_data = @ - 1],
        err |-> "none"]

\* Mapping.__contains__: try self[key], False on KeyError
contains(t, key) ==
  LET g == getitem(t, key) IN
  IF g.err = "none" THEN [t |-> g.t, err |-> "none", ret |-> <<TRUE>>]
  ELSE IF g.err = "KeyError" THEN [t |-> g.t, err |-> "none", ret |-> <<FALSE>>]
  ELSE [t |-> g.t, err |-> g.err, ret |-> <<>>]

\* __iter__: the keys of the occupied buckets in slot order
iter(t) == [i \in 1..Len(record_kvs(t.data)) |-> record_kvs(t.data)[i][1]]

(* ------------------------------ actions -------------------------------- *)
Install(t) ==
  /\ pre' = Table
  /\ n_ops' = n_ops + 1
  /\ data' = t.data
  /\ n_data' = t.n_data
  /\ collision_log' = t.collision_log
  /\ n_collisions' = t.n_collisions
  /\ UNCHANGED cvars

Operation(name, key, value, n, err, ret) ==
  [name |-> name, key |-> key, value |-> value, n |-> n, err |-> err, ret |-> ret]

\* __init__
Init ==
  /\ \E nb \in 1..MaxInitBuckets : data = [i \in 1..nb |-> None]
  /\ n_data = 0
  /\ collision_log = <<>>
  /\ n_collisions = 0
  /\ auto_resize \in BOOLEAN
  /\ max_utilization_fraction \in Fractions
  /\ bucket_increment \in 1..MaxIncrement
  /\ hash \in HashFunctions
  /\ op = Operation("init", 0, 0, 0, "none", <<>>)
  /\ pre = Table
  /\ amap = [k \in Keys |-> <<>>]
  /\ n_ops = 0

\* ht[key] = value
Set(key, value) ==
  LET r == setitem(Table, key, value) IN
  /\ Install(r.t)
  /\ op' = Operation("set", key, value, 0, r.err, <<>>)
  /\ amap' = IF r.err = "none" THEN [amap EXCEPT ![key] = <<value>>] ELSE amap

\* ht[key]
Get(key) ==
  LET r == getitem(Table, key) IN
  /\ Install(r.t)
  /\ op' = Operation("get", key, 0, 0, r.err, r.ret)
  /\ UNCHANGED amap

\* key in ht
Contains(key) ==
  LET r == contains(Table, key) IN
  /\ Install(r.t)
  /\ op' = Operation("contains", key, 0, 0, r.err, r.ret)
  /\ UNCHANGED amap

\* del ht[key]
Delete(key) ==
  LET r == delitem(Table, key) IN
  /\ Install(r.t)
  /\ op' = Operation("delete", key, 0, 0, r.err, <<>>)
  /\ amap' = IF r.err = "none" THEN [amap EXCEPT ![key] = <<>>] ELSE amap

\* ht._resize_data(n)
Resize(n) ==
  LET r == resize_data(Table, n) IN
  /\ Install(r.t)
  /\ op' = Operation("resize", 0, 0, n, r.err, <<>>)
  /\ UNCHANGED amap

(* --------------------------- specifications ---------------------------- *)
\* any sequence of the five operations on a table of any configuration
Next ==
  \/ \E key \in Keys, value \in Values : n_ops < MaxOps /\ Set(key, value)
  \/ \E key \in Keys : n_ops < MaxOps /\ Get(key)
  \/ \E key \in Keys : n_ops < MaxOps /\ Contains(key)
  \/ \E key \in Keys : n_ops < MaxOps /\ Delete(key)
  \/ \E n \in 0..MaxResize : n_ops < MaxOps /\ Resize(n)

Spec == Init /\ [][Next]_vars

\* set and resize only
NextGrow ==
  \/ \E key \in Keys, value \in Values : n_ops < MaxOps /\ Set(key, value)
  \/ \E n \in 0..MaxResize : n_ops < MaxOps /\ Resize(n)

SpecGrow == Init /\ [][NextGrow]_vars

\* longer runs of set, delete and resize, on the largest initial table with
\* the largest threshold
InitMutate ==
  /\ Init
  /\ Len(data) = MaxInitBuckets
  /\ max_utilization_fraction = <<MaxDen - 1, MaxDen>>

NextMutate ==
  \/ \E key \in Keys, value \in Values : n_ops < MaxMutateOps /\ Set(key, value)
  \/ \E key \in Keys : n_ops < MaxMutateOps /\ Delete(key)
  \/ \E n \in 0..MaxResize : n_ops < MaxMutateOps /\ Resize(n)

SpecMutate == InitMutate /\ [][NextMutate]_vars

\* the keys in the table
stored(t) == {iter(t)[i] : i \in 1..Len(iter(t))}

\* sets of keys that are not in the table, and nothing else
NextInsert ==
  \E key \in Keys \ stored(Table), value \in Values :
    n_ops < MaxInsertOps /\ Set(key, value)

SpecInsert == Init /\ [][NextInsert]_vars

(* ------------------------------- claims -------------------------------- *)
\* what a caller sees of key in table t: get's exception and return value
Observe(t, key) == <<getitem(t, key).err, getitem(t, key).ret>>

\* contains(key) is true in table t
Present(t, key) == contains(t, key).err = "none" /\ contains(t, key).ret = <<TRUE>>

\* the probe of key in table t resolves to an empty bucket
Absent(t, key) ==
  /\ key_to_bucket(t, key).err = "none"
  /\ t.data[key_to_bucket(t, key).i_bucket + 1] = None

\* C1: after set and resize operations only, the table is the abstract map:
\* get(k) returns the value of the last successful set(k, .), contains(k) is
\* false for a key never successfully set, and len() is the number of keys set.
C1_AbstractMap ==
  /\ \A k \in Keys :
       IF amap[k] = <<>>
         THEN contains(Table, k).err = "none" /\ contains(Table, k).ret = <<FALSE>>
         ELSE getitem(Table, k).err = "none" /\ getitem(Table, k).ret = amap[k]
  /\ len(Table) = Cardinality({k \in Keys : amap[k] # <<>>})

\* C2: round trip: after a set(k, v) that succeeded, get(k) returns v.
C2_RoundTrip ==
  (op.name = "set" /\ op.err = "none")
    => Observe(Table, op.key) = <<"none", <<op.value>>>>

\* C3: a successful delete(k) of a stored key leaves what get(j) returns or
\* raises unchanged for every other key j.
C3_DeleteFrame ==
  (op.name = "delete" /\ op.err = "none" /\ Present(pre, op.key))
    => \A j \in Keys \ {op.key} : Observe(Table, j) = Observe(pre, j)

\* C4: after a delete(k) that succeeded, contains(k) is false, get(k) raises
\* KeyError, and len() is one less than before.
C4_DeleteRemoves ==
  (op.name = "delete" /\ op.err = "none")
    => /\ contains(Table, op.key).err = "none"
       /\ contains(Table, op.key).ret = <<FALSE>>
       /\ getitem(Table, op.key).err = "KeyError"
       /\ len(Table) = len(pre) - 1

\* a stored key has been deleted from a table holding several
C4_Witness ==
  /\ op.name = "delete" /\ op.err = "none"
  /\ Present(pre, op.key)
  /\ len(pre) >= 2
  /\ ~Present(Table, op.key)

\* C5: delete(k) of a key whose probe resolves to an empty bucket raises
\* KeyError and leaves the buckets and n_data unchanged; n_data is not negative.
C5_DeleteAbsent ==
  (op.name = "delete" /\ Absent(pre, op.key))
    => /\ op.err = "KeyError"
       /\ data = pre.data
       /\ n_data = pre.n_data
       /\ n_data >= 0

\* C6: after a resize(m) with m >= len() that completed, every key for which
\* get returned a value before the resize returns the same value.
C6_ResizePreserves ==
  (op.name = "resize" /\ op.n >= len(pre) /\ op.err = "none")
    => \A k \in Keys :
         getitem(pre, k).err = "none" => Observe(Table, k) = Observe(pre, k)

\* C7: resize(m) with m < len() raises ValueError and leaves the buckets,
\* n_data, n_buckets and the collision log as they were.
C7_ResizeFailureAtomic ==
  (op.name = "resize" /\ op.n < len(pre))
    => op.err = "ValueError" /\ Table = pre

\* a resize to a positive size below the number of stored records was refused
C7_Witness ==
  /\ op.name = "resize" /\ op.n < len(pre) /\ op.n > 0
  /\ op.err = "ValueError"
  /\ collision_log # <<>>

C9_Exhaustion ==
  (~auto_resize /\ op.name = "set")
    => /\ n_buckets(Table) = n_buckets(pre)
       /\ IF n_ops <= n_buckets(pre)
            THEN op.err = "none" /\ len(Table) = n_ops
            ELSE op.err = "ValueError" /\ data = pre.data /\ n_data = pre.n_data

\* a table of two or more buckets was filled and then refused a new key
C9_Witness ==
  /\ ~auto_resize /\ op.name = "set" /\ op.err = "ValueError"
  /\ len(pre) = n_buckets(pre)
  /\ n_buckets(pre) >= 2
  /\ data = pre.data

\* C10: set(k, v) of a key for which contains(k) is true succeeds, replaces
\* the value in the key's bucket, and leaves len() and n_buckets unchanged.
C10_OverwritePreservesCount ==
  (op.name = "set" /\ Present(pre, op.key))
    => /\ op.err = "none"
       /\ len(Table) = len(pre)
       /\ n_buckets(Table) = n_buckets(pre)
       /\ data = [pre.data EXCEPT ![key_to_bucket(pre, op.key).i_bucket + 1] =
                                     dataRecord(op.key, op.value)]

\* a key of a completely full table without auto_resize got a new value
C10_Witness ==
  /\ ~auto_resize /\ op.name = "set" /\ op.err = "none"
  /\ Present(pre, op.key)
  /\ len(pre) = n_buckets(pre) /\ n_buckets(pre) >= 2
  /\ Observe(pre, op.key) # Observe(Table, op.key)

\* the number of non-empty buckets
occupied(t) == Len(record_kvs(t.data))

\* C11: after any operation, completed or failed, n_data equals the number
\* of non-empty buckets.
C11_CountInvariant == n_data = occupied(Table)

(* ------------------------- intermediate states ------------------------- *)
\* The tables a method passes through, one per assignment to an attribute
\* of self, in order; the last one is the table the method leaves behind.

\* _key_to_bucket: the two assignments of _log_collisions
key_to_bucket_steps(t, key) ==
  LET b == key_to_bucket(t, key) IN
  IF b.err # "none" THEN <<>>
  ELSE <<[t EXCEPT !.collision_log = b.t.collision_log], b.t>>

RECURSIVE setitem_steps(_, _, _)
RECURSIVE resize_data_steps(_, _)
RECURSIVE Recommit_steps(_, _)

\* __setitem__: the bucket is written, then counted, then the table grows
setitem_steps(t, key, value) ==
  LET b == key_to_bucket(t, key) IN
  IF b.err # "none" THEN <<>>
  ELSE
    LET data_added == b.t.data[b.i_bucket + 1] = None
        t1 == [b.t EXCEPT !.data[b.i_bucket + 1] = dataRecord(key, value)]
        t2 == IF data_added THEN [t1 EXCEPT !.n_data = @ + 1] ELSE t1
    IN key_to_bucket_steps(t, key) \o <<t1>>
         \o (IF data_added THEN <<t2>> ELSE <<>>)
         \o (IF auto_resize /\ OverUtilized(t2)
               THEN resize_data_steps(t2, n_buckets(t2) + bucket_increment)
               ELSE <<>>)

\* the loop of _resize_data
Recommit_steps(t, kvs) ==
  IF kvs = <<>> THEN <<>>
  ELSE LET r == setitem(t, Head(kvs)[1], Head(kvs)[2]) IN
       setitem_steps(t, Head(kvs)[1], Head(kvs)[2])
         \o (IF r.err # "none" THEN <<>> ELSE Recommit_steps(r.t, Tail(kvs)))

\* _resize_data: _initialize_data resets the count, then replaces the store
resize_data_steps(t, n) ==
  IF len_raises(t) \/ n < len(t) THEN <<>>
  ELSE <<[t EXCEPT !.n_data = 0], initialize_data(t, n)>>
         \o Recommit_steps(initialize_data(t, n), record_kvs(t.data))

\* __delitem__: the bucket is cleared, then the count is decremented
delitem_steps(t, key) ==
  LET b == key_to_bucket(t, key) IN
  IF b.err # "none" THEN <<>>
  ELSE key_to_bucket_steps(t, key)
         \o <<[b.t EXCEPT !.data[b.i_bucket + 1] = None],
              [b.t EXCEPT !.data[b.i_bucket + 1] = None, !.n_data = @ - 1]>>

\* the tables the last operation passed through
op_steps ==
  CASE op.name = "set" -> setitem_steps(pre, op.key, op.value)
    [] op.name = "get" -> key_to_bucket_steps(pre, op.key)
    [] op.name = "contains" -> key_to_bucket_steps(pre, op.key)
    [] op.name = "delete" -> delitem_steps(pre, op.key)
    [] op.name = "resize" -> resize_data_steps(pre, op.n)
    [] OTHER -> <<>>

\* the elements of a sequence
RECURSIVE Range(_)
Range(s) == IF s = <<>> THEN {} ELSE {Head(s)} \cup Range(Tail(s))

\* the last element of a non-empty sequence
Last(s) == Head(SubSeq(s, Len(s), Len(s)))

\* the steps end in the table the operation left behind
StepsEndInTable ==
  IF op_steps = <<>> THEN Table = pre ELSE Table = Last(op_steps)

\* C12: in every state, the states inside an operation (inside a rehash
\* too) among them, len() is at most n_buckets.
C12_Capacity ==
  /\ len(Table) <= n_buckets(Table)
  /\ \A s \in Range(op_steps) : len(s) <= n_buckets(s)

\* a resize to exactly the number of records re-inserted them all: the table
\* went from empty to full inside the operation
C12_Witness ==
  /\ op.name = "resize" /\ op.err = "none"
  /\ op.n = len(pre) /\ len(pre) >= 2
  /\ len(Table) = n_buckets(Table)
  /\ \E s \in Range(op_steps) : len(s) = 0 /\ n_buckets(s) = op.n

\* C13: iterating the keys yields no key twice, and yields a key if and only
\* if contains(key) is true.
C13_IterKeys ==
  /\ \A i, j \in 1..Len(iter(Table)) : iter(Table)[i] = iter(Table)[j] => i = j
  /\ \A k \in Keys : k \in stored(Table) <=> Present(Table, k)

(* ---------------------------- the constructor --------------------------- *)
\* the values max_utilization_fraction is given, those outside (0, 1) too
AnyFractions == (0..(MaxDen + 1)) \X (1..MaxDen)

\* __init__ called with any arguments: it stores them and builds the store
InitConstruct ==
  /\ \E nb \in 0..MaxInitBuckets :
       /\ data = [i \in 1..nb |-> None]
       /\ op = Operation("init", 0, 0, nb, "none", <<>>)
  /\ n_data = 0
  /\ collision_log = <<>>
  /\ n_collisions = 0
  /\ auto_resize \in BOOLEAN
  /\ max_utilization_fraction \in AnyFractions
  /\ bucket_increment \in (-MaxIncrement)..MaxIncrement
  /\ hash \in HashFunctions
  /\ pre = Table
  /\ amap = [k \in Keys |-> <<>>]
  /\ n_ops = 0

\* the lookups of a key on the table as constructed
NextConstruct ==
  \/ \E key \in Keys : n_ops < MaxOps /\ Get(key)
  \/ \E key \in Keys : n_ops < MaxOps /\ Contains(key)
  \/ \E key \in Keys : n_ops < MaxOps /\ Delete(key)

SpecConstruct == InitConstruct /\ [][NextConstruct]_vars

\* the constructor's arguments are those the specification allows
ValidArguments ==
  /\ op.n >= 1
  /\ bucket_increment >= 1
  /\ 0 < max_utilization_fraction[1]
  /\ max_utilization_fraction[1] < max_utilization_fraction[2]

\* C14: the constructor fails with ConfigurationError on a zero capacity, a
\* non-positive bucket_increment or a max_utilization_fraction outside (0, 1);
\* it never leaves a table of zero buckets.
C14_ConstructorValidates ==
  op.name = "init" =>
    /\ ~ValidArguments => op.err = "ConfigurationError"
    /\ n_buckets(Table) # 0

\* the record in bucket i of table t is reached by the probe of its key: at
\* most n_data steps from the key's home bucket, over occupied buckets that
\* hold other keys
Reachable(t, i) ==
  LET K == t.data[i + 1][1]
      home == hash[K] % n_buckets(t)
      steps == (i - home) % n_buckets(t)
  IN /\ steps <= t.n_data
     /\ \A d \in 0..(steps - 1) :
          /\ t.data[((home + d) % n_buckets(t)) + 1] # None
          /\ t.data[((home + d) % n_buckets(t)) + 1][1] # K

\* C15: after any sequence of set, delete and resize, every record is
\* reached by the probe of its key.
C15_ProbeReachable ==
  \A i \in 0..(n_buckets(Table) - 1) : data[i + 1] # None => Reachable(Table, i)

\* the sizes the store had in the course of the last operation
sizes == {n_buckets(s) : s \in Range(op_steps) \cup {pre}}

\* C16: an operation replaces the store at most once (a resize starts no
\* other resize); a resize(m) with m >= len() that completes ends with m
\* buckets, and a set that grows the table ends with bucket_increment more
\* buckets than before.
C16_NoNestedResize ==
  /\ Cardinality(sizes) <= 2
  /\ (op.name = "resize" /\ op.n >= len(pre) /\ op.err = "none")
       => n_buckets(Table) = op.n
  /\ (op.name = "set" /\ op.err = "none" /\ n_buckets(Table) # n_buckets(pre))
       => n_buckets(Table) = n_buckets(pre) + bucket_increment

\* the bucket d steps along the probe path of key in table t
path(t, key, d) == ((hash[key] % n_buckets(t)) + d) % n_buckets(t)

\* that bucket is empty or holds key
resolves(t, key, d) ==
  \/ t.data[path(t, key, d) + 1] = None
  \/ t.data[path(t, key, d) + 1][1] = key

\* what _key_to_bucket has to do for key in table t: with d the distance of
\* the first bucket of the path that is empty or holds key, return that
\* bucket and log d collisions, d <= n_data; raise KeyError only if there is
\* no such bucket and the table is full
Located(t, key) ==
  LET b == key_to_bucket(t, key)
      ds == {d \in 0..(n_buckets(t) - 1) : resolves(t, key, d)}
  IN IF ds = {}
       THEN b.err = "KeyError" /\ t.n_data = n_buckets(t) /\ b.t = t
       ELSE LET d == CHOOSE x \in ds : \A y \in ds : x <= y IN
            /\ b.err = "none"
            /\ b.i_bucket = path(t, key, d)
            /\ d <= t.n_data
            /\ b.t.n_collisions = t.n_collisions + d
            /\ b.t.collision_log =
                 Append(t.collision_log, collisionLog(n_buckets(t), t.n_data, d))

\* C17: where n_data is the number of occupied buckets and there is a
\* bucket, the resolution of any key returns the first bucket of its probe
\* path that is empty or holds the key, counting the buckets it skipped.
C17_Locate ==
  (n_data = occupied(Table) /\ n_buckets(Table) >= 1)
    => \A key \in Keys : Located(Table, key)

\* a get resolved its key after a wrap-around, having skipped every record
C17_Witness ==
  /\ op.name = "get"
  /\ pre.n_data = occupied(pre) /\ pre.n_data >= 2
  /\ key_to_bucket(pre, op.key).err = "none"
  /\ key_to_bucket(pre, op.key).i_bucket < hash[op.key] % n_buckets(pre)
  /\ n_collisions = pre.n_collisions + pre.n_data
  /\ Located(pre, op.key)

\* the sum of the collisions fields of a log
RECURSIVE SumCollisions(_)
SumCollisions(log) ==
  IF log = <<>> THEN 0 ELSE Head(log).collisions + SumCollisions(Tail(log))

\* log a is log b, or log b with one record appended that holds the number
\* of buckets and the count of table t
AppendsAtMostOne(t, a, b) ==
  \/ b = a
  \/ /\ Len(b) = Len(a) + 1
     /\ SubSeq(b, 1, Len(a)) = a
     /\ Last(b).n_buckets = n_buckets(t)
     /\ Last(b).len = t.n_data
     /\ Last(b).collisions >= 0

\* from table t on, every step keeps the records of the log and appends at
\* most one, which holds the values of the table before the step
RECURSIVE AppendOnly(_, _)
AppendOnly(t, steps) ==
  \/ steps = <<>>
  \/ /\ AppendsAtMostOne(t, t.collision_log, Head(steps).collision_log)
     /\ AppendOnly(Head(steps), Tail(steps))

\* the resolution of key in table t succeeds: a bucket that is empty or
\* holds key lies within n_data steps of the key's home bucket
Resolved(t, key) ==
  /\ n_buckets(t) >= 1
  /\ t.n_data >= 0
  /\ \E d \in 0..(n_buckets(t) - 1) : d <= t.n_data /\ resolves(t, key, d)

\* the distance of the first such bucket
distance(t, key) ==
  CHOOSE d \in 0..(n_buckets(t) - 1) :
    /\ resolves(t, key, d)
    /\ \A e \in 0..(d - 1) : ~resolves(t, key, e)

\* C18: the log is append-only; a resolution that succeeds appends one record
\* (n_buckets, n_data, collisions) with the values it found, also for 0
\* collisions; one that fails appends none; n_collisions is the sum of the
\* collisions fields of the log.
C18_CollisionLog ==
  /\ n_collisions = SumCollisions(collision_log)
  /\ AppendOnly(pre, op_steps)
  /\ SubSeq(collision_log, 1, Len(pre.collision_log)) = pre.collision_log
  /\ op.name \in {"set", "get", "contains", "delete"} =>
       IF Resolved(pre, op.key)
         THEN /\ Len(collision_log) > Len(pre.collision_log)
              /\ collision_log[Len(pre.collision_log) + 1] =
                   collisionLog(n_buckets(pre), pre.n_data, distance(pre, op.key))
         ELSE collision_log = pre.collision_log
  /\ op.name \in {"get", "contains", "delete"} =>
       Len(collision_log) <= Len(pre.collision_log) + 1
  /\ (op.name = "resize" /\ op.err = "none" /\ ~auto_resize) =>
       Len(collision_log) = Len(pre.collision_log) + occupied(pre)

\* a get that met no collision appended its record to a log that holds
\* collisions
C18_Witness ==
  /\ op.name = "get"
  /\ Resolved(pre, op.key) /\ distance(pre, op.key) = 0
  /\ Len(collision_log) = Len(pre.collision_log) + 1
  /\ Last(collision_log).collisions = 0
  /\ n_collisions > 0

\* C19: with auto_resize, after every set, delete or resize that completed
\* the utilization is at most max_utilization_fraction, and a bucket is empty.
C19_Utilization ==
  (auto_resize /\ op.name \in {"set", "delete", "resize"} /\ op.err = "none")
    => /\ ~OverUtilized(Table)
       /\ occupied(Table) < n_buckets(Table)

\* the steps the loop of _key_to_bucket makes for key in table t
probe_steps(t, key) == Probe(t, key, hash[key] % n_buckets(t), 0).n

\* no store larger than this is needed for one more record than table t
\* holds: at this size the utilization is not above the threshold
SizeBound(t) ==
  (occupied(t) + 1) * max_utilization_fraction[2] + bucket_increment - 1

\* C20: every operation completes: the probe loop of any key makes at most
\* n_data + 1 steps, and the chain of resizes of one operation is finite (no
\* store in it is larger than the bound at which growth stops, or than the
\* size the operation started from or was asked for).
C20_Termination ==
  /\ \A key \in Keys :
       n_buckets(Table) >= 1 => probe_steps(Table, key) <= n_data + 1
  /\ \A m \in sizes :
       \/ m <= n_buckets(pre)
       \/ op.name = "resize" /\ m <= op.n
       \/ m <= SizeBound(pre)

====
